---------------------------- MODULE Spec2Model ----------------------------
(***************************************************************************)
(* Model of the Uber receipt report generator:                             *)
(*   src/data/uber_loader.py  - text parsing of one receipt, folder loader *)
(*   src/pdf/uber_builder.py  - ordering, aggregation, currency rendering  *)
(* Python strings are TLA+ strings (Len, SubSeq, \o act on them as in      *)
(* Sequences); Optional values are records with a "some" field.            *)
(***************************************************************************)
EXTENDS Integers, Sequences, FiniteSets, TLC

VARIABLES
    pc,                 \* position of the running operation
    line, valor,        \* _extract_currency_from_line: argument, result
    date_parts,         \* the pieces the date header text is made of
    date_text,          \* data_str, the date header as printed
    data_yyyymmdd,      \* the record's data_yyyymmdd
    lines,              \* the cleaned, non-empty lines of one receipt
    key, kw_value,      \* _find_value_after_keyword: keyword, result
    text_lines,         \* text.splitlines() of the extracted text of one receipt
    data_str, hora_str, \* carregar_recibo_uber: the date and time of the header
    start_idx, scan_i,  \* carregar_recibo_uber: where the scan starts, its index i
    pontos,             \* carregar_recibo_uber: the time-marker groups collected
    recibo,             \* the record carregar_recibo_uber returns
    is_dir,             \* carregar_recibos_pasta: os.path.isdir(pasta_path)
    listing,            \* carregar_recibos_pasta: os.listdir(pasta_path)
    failing,            \* the files whose carregar_recibo_uber raises
    pos,                \* carregar_recibos_pasta: files of the listing handled
    raised,             \* carregar_recibos_pasta: an exception left the call
    recibos,            \* the list carregar_recibos_pasta builds and
                        \* criar_relatorio_uber is given
    recibos_ordenados,  \* criar_relatorio_uber: the records in report order
    total_viagens, total_valor,   \* criar_relatorio_uber: the summary
    month_totals, week_totals,    \* criar_relatorio_uber: the period totals
    promo_fmts          \* criar_relatorio_uber: promo_fmt of each trip block

currencyVars == <<line, valor>>
dateVars == <<date_parts, date_text, data_yyyymmdd>>
keywordVars == <<key, kw_value>>
reciboVars == <<text_lines, data_str, hora_str, start_idx, scan_i, pontos, recibo>>
pastaVars == <<is_dir, listing, failing, pos, raised>>
relatorioVars ==
    <<recibos_ordenados, total_viagens, total_valor, month_totals, week_totals, promo_fmts>>
vars ==
    <<pc, currencyVars, dateVars, lines, keywordVars, reciboVars, pastaVars, recibos,
      relatorioVars>>

-----------------------------------------------------------------------------
(* Optional values *)

None == [some |-> FALSE]
Some(v) == [some |-> TRUE, val |-> v]

-----------------------------------------------------------------------------
(* Characters and strings *)

Ch(s, i) == SubSeq(s, i, i)

\* the Python slice s[a-1:b], which clips at the end of s
Slice(s, a, b) ==
    IF a > Len(s) \/ b < a THEN ""
    ELSE SubSeq(s, a, IF b > Len(s) THEN Len(s) ELSE b)

Digits == {"0", "1", "2", "3", "4", "5", "6", "7", "8", "9"}

DigitVal(c) ==
    CASE c = "0" -> 0 [] c = "1" -> 1 [] c = "2" -> 2 [] c = "3" -> 3
      [] c = "4" -> 4 [] c = "5" -> 5 [] c = "6" -> 6 [] c = "7" -> 7
      [] c = "8" -> 8 [] c = "9" -> 9

\* the characters the regex class \s matches, among those the model uses
IsSpace(c) == c \in {" ", "\t"}

\* Texts are kept in ASCII. The accented letters of the receipts and U+FFFD are
\* written with one stand-in character each, which no other text of the model uses:
c_cedilla == "&"    \* c with cedilla
a_tilde   == "~"    \* a with tilde
o_tilde   == "|"    \* o with tilde
e_circ    == "^"    \* e with circumflex

\* U+FFFD, which the text extraction leaves for undecodable glyphs
ReplacementChar == "?"

\* unicodedata.normalize("NFKD") followed by dropping the combining marks
Deaccent(c) ==
    CASE c = c_cedilla -> "c"
      [] c = a_tilde -> "a"
      [] c = o_tilde -> "o"
      [] c = e_circ -> "e"
      [] OTHER -> c

\* str.lower on one character
LowerCh(c) ==
    CASE c = "A" -> "a" [] c = "B" -> "b" [] c = "C" -> "c" [] c = "D" -> "d"
      [] c = "E" -> "e" [] c = "F" -> "f" [] c = "G" -> "g" [] c = "H" -> "h"
      [] c = "I" -> "i" [] c = "J" -> "j" [] c = "K" -> "k" [] c = "L" -> "l"
      [] c = "M" -> "m" [] c = "N" -> "n" [] c = "O" -> "o" [] c = "P" -> "p"
      [] c = "Q" -> "q" [] c = "R" -> "r" [] c = "S" -> "s" [] c = "T" -> "t"
      [] c = "U" -> "u" [] c = "V" -> "v" [] c = "W" -> "w" [] c = "X" -> "x"
      [] c = "Y" -> "y" [] c = "Z" -> "z"
      [] OTHER -> c

IsAsciiLetter(c) ==
    LowerCh(c) \in {"a", "b", "c", "d", "e", "f", "g", "h", "i", "j", "k", "l", "m",
                    "n", "o", "p", "q", "r", "s", "t", "u", "v", "w", "x", "y", "z"}

RECURSIVE StrDeaccent(_)
StrDeaccent(s) ==
    IF s = "" THEN "" ELSE Deaccent(Head(s)) \o StrDeaccent(Tail(s))

RECURSIVE StrLower(_)
StrLower(s) ==
    IF s = "" THEN "" ELSE LowerCh(Head(s)) \o StrLower(Tail(s))

\* str.replace(c, "") for a one-character c
RECURSIVE RemoveChar(_, _)
RemoveChar(s, c) ==
    IF s = "" THEN ""
    ELSE (IF Head(s) = c THEN "" ELSE Head(s)) \o RemoveChar(Tail(s), c)

\* str.replace(c, d) for one-character c and d
RECURSIVE ReplaceChar(_, _, _)
ReplaceChar(s, c, d) ==
    IF s = "" THEN ""
    ELSE (IF Head(s) = c THEN d ELSE Head(s)) \o ReplaceChar(Tail(s), c, d)

\* re.sub(r"\s+", " ", s)
RECURSIVE CollapseSpaces(_)
CollapseSpaces(s) ==
    IF s = "" THEN ""
    ELSE IF IsSpace(Head(s))
         THEN IF Len(s) > 1 /\ IsSpace(Ch(s, 2))
              THEN CollapseSpaces(Tail(s))
              ELSE " " \o CollapseSpaces(Tail(s))
         ELSE Head(s) \o CollapseSpaces(Tail(s))

\* str.strip()
RECURSIVE Strip(_)
Strip(s) ==
    IF s = "" THEN ""
    ELSE IF IsSpace(Head(s)) THEN Strip(Tail(s))
    ELSE IF IsSpace(Ch(s, Len(s))) THEN Strip(SubSeq(s, 1, Len(s) - 1))
    ELSE s

\* c in s, for a one-character c
HasChar(s, c) == \E k \in 1..Len(s) : Ch(s, k) = c

\* sub in s
Contains(s, sub) ==
    \E k \in 1..(Len(s) - Len(sub) + 1) : SubSeq(s, k, k + Len(sub) - 1) = sub

\* s.startswith(p)
StartsWith(s, p) == Len(s) >= Len(p) /\ SubSeq(s, 1, Len(p)) = p

\* s.endswith(p)
EndsWith(s, p) == Len(s) >= Len(p) /\ SubSeq(s, Len(s) - Len(p) + 1, Len(s)) = p

_norm_text(value) ==
    Strip(CollapseSpaces(StrLower(RemoveChar(StrDeaccent(value), ReplacementChar))))

_clean_text(value) ==
    Strip(CollapseSpaces(RemoveChar(value, ReplacementChar)))

-----------------------------------------------------------------------------
(* Numbers: a Python float read from decimal text is the pair (num, scale) *)
(* standing for num / 10^scale, with no trailing zero kept in the fraction *)

RECURSIVE Pow10(_)
Pow10(k) == IF k = 0 THEN 1 ELSE 10 * Pow10(k - 1)

RECURSIVE Normalize(_, _)
Normalize(num, scale) ==
    IF num = 0 THEN [num |-> 0, scale |-> 0]
    ELSE IF scale > 0 /\ num % 10 = 0 THEN Normalize(num \div 10, scale - 1)
    ELSE [num |-> num, scale |-> scale]

\* value of a string of digits ("" is 0)
RECURSIVE DigitsValue(_)
DigitsValue(s) ==
    IF s = "" THEN 0
    ELSE 10 * DigitsValue(SubSeq(s, 1, Len(s) - 1)) + DigitVal(Ch(s, Len(s)))

AllDigits(s) == \A k \in 1..Len(s) : Ch(s, k) \in Digits

\* position of the first "." of s, or 0
FirstDot(s) ==
    IF HasChar(s, ".")
    THEN CHOOSE k \in 1..Len(s) : Ch(s, k) = "." /\ \A m \in 1..(k - 1) : Ch(s, m) # "."
    ELSE 0

\* float(s) for s made of the characters 0-9 . - only: Some(number), or None
\* where Python raises ValueError
PyFloat(s) ==
    LET neg  == s # "" /\ Head(s) = "-"
        body == IF neg THEN Tail(s) ELSE s
        dot  == FirstDot(body)
        ip   == IF dot = 0 THEN body ELSE SubSeq(body, 1, dot - 1)
        fp   == IF dot = 0 THEN "" ELSE SubSeq(body, dot + 1, Len(body))
        mag  == DigitsValue(ip) * Pow10(Len(fp)) + DigitsValue(fp)
    IN  IF AllDigits(ip) /\ AllDigits(fp) /\ Len(ip) + Len(fp) > 0
        THEN Some(Normalize(IF neg THEN 0 - mag ELSE mag, Len(fp)))
        ELSE None

-----------------------------------------------------------------------------
(* Currency extraction: uber_loader._parse_currency and                    *)
(* uber_loader._extract_currency_from_line                                 *)

\* the class [0-9,.-] kept by re.sub(r"[^0-9,.-]", "", s)
IsCurrencyChar(c) == c \in Digits \cup {",", ".", "-"}

RECURSIVE KeepCurrencyChars(_)
KeepCurrencyChars(s) ==
    IF s = "" THEN ""
    ELSE (IF IsCurrencyChar(Head(s)) THEN Head(s) ELSE "")
         \o KeepCurrencyChars(Tail(s))

\* a mutation of _parse_currency: periods are never dropped
ParseCurrencyKeepsPeriods(text) ==
    LET s == KeepCurrencyChars(RemoveChar(text, ReplacementChar))
    IN  IF s = "" THEN None ELSE PyFloat(ReplaceChar(s, ",", "."))

_parse_currency(text) ==
    LET s == KeepCurrencyChars(RemoveChar(text, ReplacementChar))
    IN  IF s = "" THEN None
        ELSE IF HasChar(s, ",") /\ HasChar(s, ".")
             THEN PyFloat(ReplaceChar(RemoveChar(s, "."), ",", "."))
             ELSE PyFloat(ReplaceChar(s, ",", "."))

\* the class [0-9.,] of the captured group
IsAmountChar(c) == c \in Digits \cup {".", ","}

\* first index >= i of s that holds no whitespace (Len(s) + 1 if none)
RECURSIVE SkipSpaces(_, _)
SkipSpaces(s, i) ==
    IF i <= Len(s) /\ IsSpace(Ch(s, i)) THEN SkipSpaces(s, i + 1) ELSE i

\* last index of the run of [0-9.,] that starts at i
RECURSIVE AmountEnd(_, _)
AmountEnd(s, i) ==
    IF i + 1 <= Len(s) /\ IsAmountChar(Ch(s, i + 1)) THEN AmountEnd(s, i + 1) ELSE i

\* re.search(r"-?R\$\s*([0-9.,]+)", s): does "R$", blanks, an amount start at q
AmountAt(s, q) ==
    /\ q + 1 <= Len(s)
    /\ SubSeq(s, q, q + 1) = "R$"
    /\ SkipSpaces(s, q + 2) <= Len(s)
    /\ IsAmountChar(Ch(s, SkipSpaces(s, q + 2)))

\* group(1) of the leftmost match, as Some(text), or None when nothing matches
CurrencyMatch(s) ==
    IF \E q \in 1..Len(s) : AmountAt(s, q)
    THEN LET q == CHOOSE q \in 1..Len(s) :
                      AmountAt(s, q) /\ \A m \in 1..(q - 1) : ~AmountAt(s, m)
             b == SkipSpaces(s, q + 2)
         IN  Some(SubSeq(s, b, AmountEnd(s, b)))
    ELSE None

_extract_currency_from_line(l) ==
    LET match == CurrencyMatch(l)
    IN  IF match.some THEN _parse_currency(match.val) ELSE _parse_currency(l)

-----------------------------------------------------------------------------
(* Keyword-anchored values: uber_loader._find_value_after_keyword          *)
(* Indices are Python's: the line of index i is ls[i + 1]                  *)

\* a mutation of the loop: the first line holding the keyword ends the search
RECURSIVE FirstKeywordOnlyFrom(_, _, _)
FirstKeywordOnlyFrom(ls, k, i) ==
    IF i >= Len(ls) THEN None
    ELSE IF Contains(_norm_text(ls[i + 1]), k)
         THEN LET value == _extract_currency_from_line(ls[i + 1])
              IN  IF value.some THEN value
                  ELSE IF i + 1 < Len(ls)
                       THEN _extract_currency_from_line(ls[i + 2])
                       ELSE None
         ELSE FirstKeywordOnlyFrom(ls, k, i + 1)

FindValueFirstKeywordOnly(ls, k) == FirstKeywordOnlyFrom(ls, k, 0)

\* the for loop from index i on
RECURSIVE FindValueFrom(_, _, _)
FindValueFrom(ls, k, i) ==
    IF i >= Len(ls) THEN None
    ELSE IF Contains(_norm_text(ls[i + 1]), k)
         THEN LET value == _extract_currency_from_line(ls[i + 1])
                  after == IF i + 1 < Len(ls)
                           THEN _extract_currency_from_line(ls[i + 2])
                           ELSE None
              IN  IF value.some THEN value
                  ELSE IF after.some THEN after
                  ELSE FindValueFrom(ls, k, i + 1)
         ELSE FindValueFrom(ls, k, i + 1)

_find_value_after_keyword(ls, k) == FindValueFrom(ls, k, 0)

-----------------------------------------------------------------------------
(* Date normalization: uber_loader._parse_date_pt                          *)

\* the months table
months(p) ==
    CASE p = "jan" -> Some("01") [] p = "fev" -> Some("02") [] p = "mar" -> Some("03")
      [] p = "abr" -> Some("04") [] p = "mai" -> Some("05") [] p = "jun" -> Some("06")
      [] p = "jul" -> Some("07") [] p = "ago" -> Some("08") [] p = "set" -> Some("09")
      [] p = "out" -> Some("10") [] p = "nov" -> Some("11") [] p = "dez" -> Some("12")
      [] OTHER -> None

\* str.zfill(2) of a string of one or two characters
Zfill2(s) == IF Len(s) < 2 THEN "0" \o s ELSE s

\* str.strip(".")
RECURSIVE StripDots(_)
StripDots(s) ==
    IF s = "" THEN ""
    ELSE IF Head(s) = "." THEN StripDots(Tail(s))
    ELSE IF Ch(s, Len(s)) = "." THEN StripDots(SubSeq(s, 1, Len(s) - 1))
    ELSE s

\* the class [a-zA-Z\.]
IsMonthChar(c) == IsAsciiLetter(c) \/ c = "."

\* last index of the run of [a-zA-Z\.] that starts at i (i - 1 if it is empty)
RECURSIVE MonthEnd(_, _)
MonthEnd(s, i) ==
    IF i <= Len(s) /\ IsMonthChar(Ch(s, i)) THEN MonthEnd(s, i + 1) ELSE i - 1

\* re.match(r"(\d{1,2}) de ([a-zA-Z\.]+) de (\d{4})", s): the three groups, or None
DateMatch(s) ==
    LET dlen == IF Len(s) >= 2 /\ Ch(s, 1) \in Digits /\ Ch(s, 2) \in Digits THEN 2
                ELSE IF Len(s) >= 1 /\ Ch(s, 1) \in Digits THEN 1
                ELSE 0
        mb   == dlen + 5
        me   == MonthEnd(s, mb)
        yb   == me + 5
    IN  IF /\ dlen > 0
           /\ Slice(s, dlen + 1, dlen + 4) = " de "
           /\ me >= mb
           /\ Slice(s, me + 1, me + 4) = " de "
           /\ yb + 3 <= Len(s)
           /\ AllDigits(SubSeq(s, yb, yb + 3))
        THEN Some([day |-> SubSeq(s, 1, dlen), mon |-> SubSeq(s, mb, me),
                   year |-> SubSeq(s, yb, yb + 3)])
        ELSE None

\* a mutation of _parse_date_pt: the day is not zero-filled
ParseDateNoZfill(text) ==
    LET m == DateMatch(text)
    IN  IF ~m.some THEN None
        ELSE LET mon == months(StrLower(Slice(StripDots(m.val.mon), 1, 3)))
             IN  IF ~mon.some THEN None
                 ELSE Some(m.val.year \o mon.val \o m.val.day)

_parse_date_pt(text) ==
    LET m == DateMatch(text)
    IN  IF ~m.some THEN None
        ELSE LET day     == Zfill2(m.val.day)
                 mon_raw == StripDots(m.val.mon)
                 mon     == months(StrLower(Slice(mon_raw, 1, 3)))
             IN  IF ~mon.some THEN None
                 ELSE Some(m.val.year \o mon.val \o day)

-----------------------------------------------------------------------------
(* One receipt: uber_loader.carregar_recibo_uber, the date and time header *)
(* and the origin and destination scan                                     *)

\* re.match(r"^\d{1,2}:\d{2}$", s)
IsTime(s) ==
    \/ /\ Len(s) = 4
       /\ Ch(s, 1) \in Digits /\ Ch(s, 2) = ":"
       /\ Ch(s, 3) \in Digits /\ Ch(s, 4) \in Digits
    \/ /\ Len(s) = 5
       /\ Ch(s, 1) \in Digits /\ Ch(s, 2) \in Digits /\ Ch(s, 3) = ":"
       /\ Ch(s, 4) \in Digits /\ Ch(s, 5) \in Digits

\* re.match(r"^\d{1,2} de ", n) and " de " in n
IsDateHeader(n) ==
    /\ \E dlen \in {1, 2} :
          /\ Len(n) >= dlen + 4
          /\ AllDigits(SubSeq(n, 1, dlen))
          /\ SubSeq(n, dlen + 1, dlen + 4) = " de "
    /\ Contains(n, " de ")

\* [_clean_text(l) for l in text.splitlines() if _clean_text(l)]
RECURSIVE CleanLines(_)
CleanLines(ts) ==
    IF ts = <<>> THEN <<>>
    ELSE (IF _clean_text(Head(ts)) # "" THEN <<_clean_text(Head(ts))>> ELSE <<>>)
         \o CleanLines(Tail(ts))

IsHeaderLine(l) == IsDateHeader(_norm_text(l))
IsAnchorLine(l) == _norm_text(l) = "informacoes da viagem"
IsBoilerplateLine(l) == StartsWith(_norm_text(l), "voce viajou")

\* index of the first date header line from index k on, or Len(ls): the for loop
\* of lines 104-109 up to its break
RECURSIVE FirstHeader(_, _)
FirstHeader(ls, k) ==
    IF k >= Len(ls) THEN Len(ls)
    ELSE IF IsHeaderLine(ls[k + 1]) THEN k
    ELSE FirstHeader(ls, k + 1)

\* index of the first anchor line from index k on, or Len(ls): the for loop of
\* lines 146-149 up to its break
RECURSIVE FirstAnchor(_, _)
FirstAnchor(ls, k) ==
    IF k >= Len(ls) THEN Len(ls)
    ELSE IF IsAnchorLine(ls[k + 1]) THEN k
    ELSE FirstAnchor(ls, k + 1)

\* " ".join(ss)
RECURSIVE Join(_)
Join(ss) ==
    IF ss = <<>> THEN ""
    ELSE IF Len(ss) = 1 THEN ss[1]
    ELSE ss[1] \o " " \o Join(Tail(ss))

\* a mutation of the inner loop: the boilerplate line does not end an address
RECURSIVE AddrEndKeepsBoilerplate(_, _)
AddrEndKeepsBoilerplate(ls, j) ==
    IF j < Len(ls) /\ ~IsTime(ls[j + 1])
    THEN AddrEndKeepsBoilerplate(ls, j + 1)
    ELSE j

\* the inner while loop: the index j it stops at, started at j
RECURSIVE AddrEnd(_, _)
AddrEnd(ls, j) ==
    IF j < Len(ls) /\ ~IsTime(ls[j + 1]) /\ ~IsBoilerplateLine(ls[j + 1])
    THEN AddrEnd(ls, j + 1)
    ELSE j

\* [_clean_text(ls[m]) for m in range(a, b)]
CleanRange(ls, a, b) == [m \in 1..(b - a) |-> _clean_text(ls[a + m])]

\* lines 101-109: data_str and hora_str
HeaderOf(ls) ==
    LET h == FirstHeader(ls, 0)
    IN  IF h >= Len(ls) THEN [data_str |-> None, hora_str |-> None]
        ELSE [data_str |-> Some(_clean_text(ls[h + 1])),
              hora_str |-> IF h + 1 < Len(ls) /\ IsTime(ls[h + 2])
                           THEN Some(_clean_text(ls[h + 2]))
                           ELSE None]

\* lines 145-149: start_idx
StartIdxOf(ls) ==
    LET a == FirstAnchor(ls, 0)
    IN  IF a >= Len(ls) THEN 0 ELSE a + 1

ReadText ==
    /\ pc = "start"
    /\ lines' = CleanLines(text_lines)
    /\ pc' = "header"
    /\ UNCHANGED <<text_lines, data_str, hora_str, start_idx, scan_i, pontos, recibo>>
    /\ UNCHANGED <<currencyVars, dateVars, keywordVars, pastaVars, recibos, relatorioVars>>

ParseHeader ==
    /\ pc = "header"
    /\ data_str' = HeaderOf(lines).data_str
    /\ hora_str' = HeaderOf(lines).hora_str
    /\ pc' = "anchor"
    /\ UNCHANGED <<text_lines, lines, start_idx, scan_i, pontos, recibo>>
    /\ UNCHANGED <<currencyVars, dateVars, keywordVars, pastaVars, recibos, relatorioVars>>

FindStart ==
    /\ pc = "anchor"
    /\ start_idx' = StartIdxOf(lines)
    /\ scan_i' = StartIdxOf(lines)
    /\ pontos' = <<>>
    /\ pc' = "scan"
    /\ UNCHANGED <<text_lines, lines, data_str, hora_str, recibo>>
    /\ UNCHANGED <<currencyVars, dateVars, keywordVars, pastaVars, recibos, relatorioVars>>

\* one iteration of the outer while loop
ScanStep ==
    /\ pc = "scan"
    /\ scan_i < Len(lines)
    /\ IF IsTime(lines[scan_i + 1])
       THEN LET hora == _clean_text(lines[scan_i + 1])
                j == AddrEnd(lines, scan_i + 1)
                addr_lines == CleanRange(lines, scan_i + 1, j)
                ponto == [hora |-> hora, endereco |-> Strip(Join(addr_lines))]
            IN  /\ pontos' = Append(pontos, ponto)
                /\ scan_i' = j
                /\ pc' = IF Len(pontos) + 1 >= 2 THEN "return" ELSE "scan"
       ELSE /\ scan_i' = scan_i + 1
            /\ UNCHANGED <<pontos, pc>>
    /\ UNCHANGED <<text_lines, lines, data_str, hora_str, start_idx, recibo>>
    /\ UNCHANGED <<currencyVars, dateVars, keywordVars, pastaVars, recibos, relatorioVars>>

\* the loop condition i < len(lines) fails
ScanEnd ==
    /\ pc = "scan"
    /\ scan_i >= Len(lines)
    /\ pc' = "return"
    /\ UNCHANGED <<text_lines, lines, data_str, hora_str, start_idx, scan_i, pontos, recibo>>
    /\ UNCHANGED <<currencyVars, dateVars, keywordVars, pastaVars, recibos, relatorioVars>>

\* lines 169-185, the fields the header and the scan decide
Return ==
    /\ pc = "return"
    /\ recibo' = Some([data_texto |-> data_str,
                       hora |-> hora_str,
                       data_yyyymmdd |->
                           _parse_date_pt(_norm_text(IF data_str.some THEN data_str.val ELSE "")),
                       origem |-> IF Len(pontos) > 0 THEN Some(pontos[1]) ELSE None,
                       destino |-> IF Len(pontos) > 1 THEN Some(pontos[2]) ELSE None])
    /\ pc' = "done"
    /\ UNCHANGED <<text_lines, lines, data_str, hora_str, start_idx, scan_i, pontos>>
    /\ UNCHANGED <<currencyVars, dateVars, keywordVars, pastaVars, recibos, relatorioVars>>

-----------------------------------------------------------------------------
(* The folder loader: uber_loader.carregar_recibos_pasta                   *)

\* nome.lower().endswith(".pdf")
HasPdfExtension(nome) == EndsWith(StrLower(nome), ".pdf")

\* line 190: not a directory, return the empty list
CheckDir ==
    /\ pc = "start"
    /\ pc' = IF is_dir THEN "loop" ELSE "done"
    /\ recibos' = <<>>
    /\ UNCHANGED <<pastaVars, relatorioVars>>
    /\ UNCHANGED <<currencyVars, dateVars, lines, keywordVars, reciboVars>>

\* a mutation of the loop body: no try/except around the parse
LoadFileNoTry ==
    /\ pc = "loop"
    /\ pos < Len(listing)
    /\ LET nome == listing[pos + 1]
       IN  IF ~HasPdfExtension(nome)
           THEN UNCHANGED <<recibos, raised, pc>>
           ELSE IF nome \in failing
                THEN raised' = TRUE /\ pc' = "done" /\ UNCHANGED recibos
                ELSE /\ recibos' = Append(recibos, [arquivo |-> nome])
                     /\ UNCHANGED <<raised, pc>>
    /\ pos' = pos + 1
    /\ UNCHANGED <<is_dir, listing, failing, relatorioVars>>
    /\ UNCHANGED <<currencyVars, dateVars, lines, keywordVars, reciboVars>>

\* lines 192-199: one file of the listing; the record of a parsed file is
\* known here by its "arquivo" field, os.path.basename of its path
LoadFile ==
    /\ pc = "loop"
    /\ pos < Len(listing)
    /\ LET nome == listing[pos + 1]
       IN  IF ~HasPdfExtension(nome)
           THEN UNCHANGED recibos
           ELSE IF nome \in failing
                THEN UNCHANGED recibos
                ELSE recibos' = Append(recibos, [arquivo |-> nome])
    /\ pos' = pos + 1
    /\ UNCHANGED <<pc, is_dir, listing, failing, raised, relatorioVars>>
    /\ UNCHANGED <<currencyVars, dateVars, lines, keywordVars, reciboVars>>

\* line 200
ReturnRecibos ==
    /\ pc = "loop"
    /\ pos >= Len(listing)
    /\ pc' = "done"
    /\ UNCHANGED <<pastaVars, recibos, relatorioVars>>
    /\ UNCHANGED <<currencyVars, dateVars, lines, keywordVars, reciboVars>>

-----------------------------------------------------------------------------
(* The report: uber_builder._fmt_currency, _sort_key, _date_from_yyyymmdd  *)
(* and the ordering, totals and promotion text of criar_relatorio_uber.    *)
(* Amounts are integer cents.                                              *)

Abs(n) == IF n < 0 THEN 0 - n ELSE n

DigitCh(d) == SubSeq("0123456789", d + 1, d + 1)

\* str(n) for a natural number n
RECURSIVE NatStr(_)
NatStr(n) == IF n < 10 THEN DigitCh(n) ELSE NatStr(n \div 10) \o DigitCh(n % 10)

\* the "," option of the format specification: digits grouped by three
RECURSIVE GroupThousands(_)
GroupThousands(ds) ==
    IF Len(ds) <= 3 THEN ds
    ELSE GroupThousands(SubSeq(ds, 1, Len(ds) - 3)) \o ","
         \o SubSeq(ds, Len(ds) - 2, Len(ds))

\* f"{v:,.2f}" for v of the given cents
FormatFixed2(cents) ==
    (IF cents < 0 THEN "-" ELSE "")
    \o GroupThousands(NatStr(Abs(cents) \div 100))
    \o "." \o DigitCh((Abs(cents) % 100) \div 10) \o DigitCh(Abs(cents) % 10)

_fmt_currency(value) ==
    IF ~value.some THEN "-"
    ELSE ReplaceChar(ReplaceChar(ReplaceChar("R$ " \o FormatFixed2(value.val),
                                             ",", "X"), ".", ","), "X", ".")

\* lines 233-236: promo_fmt
PromoFmt(promo_val) ==
    LET promo_fmt == _fmt_currency(promo_val)
    IN  IF promo_fmt # "-" /\ ~StartsWith(promo_fmt, "-")
        THEN "-" \o promo_fmt
        ELSE promo_fmt

\* x or default, for an optional string x
OrDefault(x, default) == IF x.some /\ x.val # "" THEN x.val ELSE default

_sort_key(r) ==
    OrDefault(r.data_yyyymmdd, "00000000") \o "_" \o OrDefault(r.hora, "00:00")

\* ord(c) for the characters of a sort key
Ord(c) ==
    CASE c \in Digits -> 48 + DigitVal(c)
      [] c = ":" -> 58
      [] c = "_" -> 95

\* a < b for Python strings
RECURSIVE StrLess(_, _)
StrLess(a, b) ==
    IF b = "" THEN FALSE
    ELSE IF a = "" THEN TRUE
    ELSE IF Head(a) = Head(b) THEN StrLess(Tail(a), Tail(b))
    ELSE Ord(Head(a)) < Ord(Head(b))

\* r put into the sorted list rs behind every record whose key is not greater
RECURSIVE InsertByKey(_, _)
InsertByKey(rs, r) ==
    IF rs = <<>> THEN <<r>>
    ELSE IF StrLess(_sort_key(r), _sort_key(rs[Len(rs)]))
         THEN Append(InsertByKey(SubSeq(rs, 1, Len(rs) - 1), r), rs[Len(rs)])
         ELSE Append(rs, r)

\* sorted(rs, key=_sort_key), a stable sort
RECURSIVE SortedByKey(_)
SortedByKey(rs) ==
    IF rs = <<>> THEN <<>>
    ELSE InsertByKey(SortedByKey(SubSeq(rs, 1, Len(rs) - 1)), rs[Len(rs)])

IsLeap(y) == (y % 4 = 0 /\ y % 100 # 0) \/ y % 400 = 0

DaysInMonth(y, m) ==
    IF m = 2 THEN (IF IsLeap(y) THEN 29 ELSE 28)
    ELSE IF m \in {4, 6, 9, 11} THEN 30
    ELSE 31

\* datetime.strptime(value, "%Y%m%d") guarded by the length test; date keys
\* are the digit strings _parse_date_pt builds
_date_from_yyyymmdd(value) ==
    IF ~value.some \/ value.val = "" \/ Len(value.val) # 8 THEN None
    ELSE LET y == DigitsValue(SubSeq(value.val, 1, 4))
             m == DigitsValue(SubSeq(value.val, 5, 6))
             d == DigitsValue(SubSeq(value.val, 7, 8))
         IN  IF /\ AllDigits(value.val)
                /\ y >= 1
                /\ m \in 1..12
                /\ d >= 1 /\ d <= DaysInMonth(y, m)
             THEN Some([year |-> y, month |-> m, day |-> d,
                        month_key |-> SubSeq(value.val, 5, 6) \o "/"
                                      \o SubSeq(value.val, 1, 4)])
             ELSE None

\* a mutation of the week number: the day is not brought to a zero base
WeekIdxNoZeroBase(day) == (day \div 7) + 1

\* line 169: week_idx
WeekIdx(day) == ((day - 1) \div 7) + 1

\* the bullet U+2022 of the week key is written "*"
WeekKey(month_key, week_idx) == month_key \o " * Semana " \o NatStr(week_idx)

\* r.get("total") or 0.0
TotalOrZero(r) == IF r.total.some THEN r.total.val ELSE 0

\* d.get(k, 0.0) + v stored at k
AddTo(d, k, v) ==
    IF k \in DOMAIN d THEN [d EXCEPT ![k] = @ + v] ELSE d @@ (k :> v)

\* sum(... for r in rs)
RECURSIVE SumTotals(_)
SumTotals(rs) ==
    IF rs = <<>> THEN 0 ELSE TotalOrZero(Head(rs)) + SumTotals(Tail(rs))

\* lines 160-171: the two dictionaries after the loop over rs
RECURSIVE PeriodTotals(_)
PeriodTotals(rs) ==
    IF rs = <<>> THEN [month |-> <<>>, week |-> <<>>]
    ELSE LET before == PeriodTotals(SubSeq(rs, 1, Len(rs) - 1))
             r == rs[Len(rs)]
             d == _date_from_yyyymmdd(r.data_yyyymmdd)
         IN  IF ~d.some THEN before
             ELSE [month |-> AddTo(before.month, d.val.month_key, TotalOrZero(r)),
                   week  |-> AddTo(before.week,
                                   WeekKey(d.val.month_key, WeekIdx(d.val.day)),
                                   TotalOrZero(r))]

\* criar_relatorio_uber, what it computes before the layout
CriarRelatorio ==
    /\ pc = "start"
    /\ recibos_ordenados' = SortedByKey(recibos)
    /\ total_viagens' = Len(recibos)
    /\ total_valor' = SumTotals(SortedByKey(recibos))
    /\ month_totals' = PeriodTotals(SortedByKey(recibos)).month
    /\ week_totals' = PeriodTotals(SortedByKey(recibos)).week
    /\ promo_fmts' = [k \in 1..Len(recibos) |-> PromoFmt(SortedByKey(recibos)[k].promocao)]
    /\ pc' = "done"
    /\ UNCHANGED <<pastaVars, recibos>>
    /\ UNCHANGED <<currencyVars, dateVars, lines, keywordVars, reciboVars>>

-----------------------------------------------------------------------------
(* Specification of currency extraction: one call of                      *)
(* _extract_currency_from_line on a line built from a few fragments        *)

MaxFragments == 3

CurrencyFragments ==
    {"R$ 1.234,56", "R$ 5,00", "1.234,56", "1234,56", "Total ", "7", ",", ".", "-",
     "R$", " "}

RECURSIVE Concats(_, _)
Concats(frags, n) ==
    IF n = 0 THEN {""}
    ELSE Concats(frags, n - 1) \cup
         {f \o s : f \in frags, s \in Concats(frags, n - 1)}

IdleDate == date_parts = None /\ date_text = "" /\ data_yyyymmdd = None
IdleKeyword == key = "" /\ kw_value = None
IdleLines == lines = <<>>
IdlePasta ==
    /\ is_dir = FALSE /\ listing = <<>> /\ failing = {} /\ pos = 0 /\ raised = FALSE
IdleRelatorio ==
    /\ recibos_ordenados = <<>> /\ total_viagens = 0 /\ total_valor = 0
    /\ month_totals = <<>> /\ week_totals = <<>> /\ promo_fmts = <<>>
IdleReport == IdlePasta /\ recibos = <<>> /\ IdleRelatorio
IdleRecibo ==
    /\ text_lines = <<>> /\ data_str = None /\ hora_str = None
    /\ start_idx = 0 /\ scan_i = 0 /\ pontos = <<>> /\ recibo = None

InitCurrency ==
    /\ pc = "start"
    /\ line \in Concats(CurrencyFragments, MaxFragments)
    /\ valor = None
    /\ IdleDate /\ IdleLines /\ IdleKeyword /\ IdleRecibo /\ IdleReport

ExtractCurrency ==
    /\ pc = "start"
    /\ valor' = _extract_currency_from_line(line)
    /\ pc' = "done"
    /\ UNCHANGED <<line, dateVars, lines, keywordVars, reciboVars, pastaVars, recibos, relatorioVars>>

NextCurrency == ExtractCurrency

SpecCurrency == InitCurrency /\ [][NextCurrency]_vars

-----------------------------------------------------------------------------
(* Specification of date normalization: carregar_recibo_uber's             *)
(* _parse_date_pt(_norm_text(data_str or "")) on a header built from parts *)

DayTexts == {"5", "05", "31", "0", "123", "", "x"}
SepTexts == {" de ", " De ", "  de ", " d ", " de"}
MonthTexts ==
    {"janeiro", "fev", "mar&o", "MAR&O", "Abr.", "maio", "jun", "julho", "ago.",
     "setembro", "out", "nov", "dezembro", ".dez", "ma", "xyz", "m4rco", "", "m^s"}
YearTexts == {"2024", "1999", "24", "20245", "2o24"}
TailTexts == {"", " 10:30"}

IdleCurrency == line = "" /\ valor = None

InitDate ==
    /\ pc = "start"
    /\ date_parts \in [day : DayTexts, sep1 : SepTexts, mon : MonthTexts,
                        sep2 : SepTexts, year : YearTexts, tail : TailTexts]
    /\ date_text = date_parts.day \o date_parts.sep1 \o date_parts.mon
                    \o date_parts.sep2 \o date_parts.year \o date_parts.tail
    /\ data_yyyymmdd = None
    /\ IdleCurrency /\ IdleLines /\ IdleKeyword /\ IdleRecibo /\ IdleReport

ParseDate ==
    /\ pc = "start"
    /\ data_yyyymmdd' = _parse_date_pt(_norm_text(date_text))
    /\ pc' = "done"
    /\ UNCHANGED <<date_parts, date_text, currencyVars, lines, keywordVars, reciboVars, pastaVars,
                   recibos, relatorioVars>>

NextDate == ParseDate

SpecDate == InitDate /\ [][NextDate]_vars

-----------------------------------------------------------------------------
(* Specification of keyword-anchored extraction: one call of               *)
(* _find_value_after_keyword on a short receipt                            *)

MaxKeywordLines == 4

KeywordLines ==
    {"Total", "Total R$ 25,00", "Subtotal R$ 10,00", "R$ 7,50", "Pagamentos",
     "Promo" \o c_cedilla \o a_tilde \o "o", "-3,00"}

\* the keywords carregar_recibo_uber looks for, two of the five
Keywords == {"total", "promocao"}

\* the sequences of at most n elements of S
SeqsUpTo(S, n) == UNION {[1..m -> S] : m \in 0..n}

InitKeyword ==
    /\ pc = "start"
    /\ lines \in SeqsUpTo(KeywordLines, MaxKeywordLines)
    /\ key \in Keywords
    /\ kw_value = None
    /\ IdleCurrency /\ IdleDate /\ IdleRecibo /\ IdleReport

FindValue ==
    /\ pc = "start"
    /\ kw_value' = _find_value_after_keyword(lines, key)
    /\ pc' = "done"
    /\ UNCHANGED <<lines, key, currencyVars, dateVars, reciboVars, pastaVars, recibos, relatorioVars>>

NextKeyword == FindValue

SpecKeyword == InitKeyword /\ [][NextKeyword]_vars

-----------------------------------------------------------------------------
(* Specification of one receipt: carregar_recibo_uber on a short text      *)

MaxTextLines == 4

DateFull == "5 de mar" \o c_cedilla \o "o de 2024"
DateShort == "5 de mar" \o c_cedilla \o "o"
AnchorText == "Informa" \o c_cedilla \o o_tilde \o "es  da viagem"
BoilerplateText == "Voc" \o e_circ \o " viajou 5 km"

TextLines ==
    {DateFull, DateShort, "10:30", "9:05 ", AnchorText, "Rua A", BoilerplateText}

InitRecibo ==
    /\ pc = "start"
    /\ text_lines \in SeqsUpTo(TextLines, MaxTextLines)
    /\ lines = <<>>
    /\ data_str = None /\ hora_str = None
    /\ start_idx = 0 /\ scan_i = 0 /\ pontos = <<>> /\ recibo = None
    /\ IdleCurrency /\ IdleDate /\ IdleKeyword /\ IdleReport

NextRecibo ==
    \/ ReadText
    \/ ParseHeader
    \/ FindStart
    \/ ScanStep
    \/ ScanEnd
    \/ Return

SpecRecibo == InitRecibo /\ [][NextRecibo]_vars

-----------------------------------------------------------------------------
(* Specification of the folder loader: carregar_recibos_pasta on a small   *)
(* folder, any of whose files may fail to parse                            *)

MaxFiles == 3

FileNames == {"a.pdf", "B.PDF", "c.Pdf", "notes.txt", "pdf", "d.pdf.bak"}

\* the listings of at most n distinct names
Listings(n) ==
    {l \in SeqsUpTo(FileNames, n) : \A a, b \in 1..Len(l) : a # b => l[a] # l[b]}

InitPasta ==
    /\ pc = "start"
    /\ is_dir \in BOOLEAN
    /\ listing \in (IF is_dir THEN Listings(MaxFiles) ELSE {<<>>})
    /\ failing \in SUBSET {listing[k] : k \in 1..Len(listing)}
    /\ pos = 0
    /\ raised = FALSE
    /\ recibos = <<>>
    /\ IdleRelatorio
    /\ IdleCurrency /\ IdleDate /\ IdleLines /\ IdleKeyword /\ IdleRecibo

NextPasta ==
    \/ CheckDir
    \/ LoadFile
    \/ ReturnRecibos

SpecPasta == InitPasta /\ [][NextPasta]_vars

-----------------------------------------------------------------------------
(* Specifications of the report: criar_relatorio_uber on a few records,    *)
(* once with records that differ in date and time, once with records that  *)
(* differ in date and amounts                                              *)

MaxRecibos == 3
MaxPeriodRecibos == 2

OrderRecords ==
    [data_yyyymmdd : {None, Some("20240101"), Some("20240102")},
     hora : {None, Some("9:00"), Some("10:00"), Some("08:30")},
     total : {None},
     promocao : {None}]

\* 30 February is a date key the parser builds and no calendar date
PeriodRecords ==
    {[data_yyyymmdd |-> d, hora |-> None, total |-> a.total, promocao |-> a.promocao] :
        d \in {None, Some("20240101"), Some("20240107"), Some("20240108"),
               Some("20240131"), Some("20240207"), Some("20240230")},
        a \in {[total |-> None, promocao |-> None],
               [total |-> Some(2550), promocao |-> Some(1000)],
               [total |-> Some(123456), promocao |-> Some(0 - 1000)]}}

InitOrdenacao ==
    /\ pc = "start"
    /\ recibos \in SeqsUpTo(OrderRecords, MaxRecibos)
    /\ IdleRelatorio /\ IdlePasta
    /\ IdleCurrency /\ IdleDate /\ IdleLines /\ IdleKeyword /\ IdleRecibo

NextOrdenacao == CriarRelatorio

SpecOrdenacao == InitOrdenacao /\ [][NextOrdenacao]_vars

InitPeriodos ==
    /\ pc = "start"
    /\ recibos \in SeqsUpTo(PeriodRecords, MaxPeriodRecibos)
    /\ IdleRelatorio /\ IdlePasta
    /\ IdleCurrency /\ IdleDate /\ IdleLines /\ IdleKeyword /\ IdleRecibo

NextPeriodos == CriarRelatorio

SpecPeriodos == InitPeriodos /\ [][NextPeriodos]_vars

-----------------------------------------------------------------------------
(* Claims about currency extraction (SpecCurrency)                         *)

\* 1234.56
Amount123456 == [num |-> 123456, scale |-> 2]

\* "R$ 1.234,56" is the first "R$" of l and no digit, comma or period follows it
FirstAmountIs123456(l) ==
    \E k \in 1..Len(l) :
        /\ Slice(l, k, k + 10) = "R$ 1.234,56"
        /\ ~Contains(SubSeq(l, 1, k - 1), "R$")
        /\ (k + 11 > Len(l) \/ ~IsAmountChar(Ch(l, k + 11)))

\* the text of l with everything but digits, commas, periods and minus signs dropped
Kept(l) == KeepCurrencyChars(l)

\* l holds no "R$" and its kept text is <digits and periods> "," <digits>
CommaDecimalForm(l) ==
    /\ ~Contains(l, "R$")
    /\ \E c \in 1..Len(Kept(l)) :
          /\ Ch(Kept(l), c) = ","
          /\ \A k \in 1..Len(Kept(l)) :
                /\ k < c => Ch(Kept(l), k) \in Digits \cup {"."}
                /\ k > c => Ch(Kept(l), k) \in Digits
    /\ \E k \in 1..Len(Kept(l)) : Ch(Kept(l), k) \in Digits

\* the number such a line denotes: periods dropped, the comma the decimal separator
CommaDecimalValue(l) ==
    LET c  == CHOOSE c \in 1..Len(Kept(l)) : Ch(Kept(l), c) = ","
        ip == RemoveChar(SubSeq(Kept(l), 1, c - 1), ".")
        fp == SubSeq(Kept(l), c + 1, Len(Kept(l)))
    IN  Normalize(DigitsValue(ip) * Pow10(Len(fp)) + DigitsValue(fp), Len(fp))

-----------------------------------------------------------------------------
(* Claims about date normalization (SpecDate)                              *)

MonthPrefixes ==
    <<"jan", "fev", "mar", "abr", "mai", "jun", "jul", "ago", "set", "out", "nov", "dez">>

TwoDigits(k) == <<"01", "02", "03", "04", "05", "06", "07", "08", "09", "10", "11", "12">>[k]

\* the month name without accents and in lower case
PlainMonth(m) == StrLower(StrDeaccent(m))

\* " de " up to case and repeated blanks
IsDe(sep) == CollapseSpaces(StrLower(sep)) = " de "

\* the parts spell "D de <name> de YYYY...": one or two digits, a name of
\* letters and periods, four digits
SpellsDate(p) ==
    /\ Len(p.day) \in {1, 2} /\ AllDigits(p.day)
    /\ IsDe(p.sep1) /\ IsDe(p.sep2)
    /\ p.mon # "" /\ \A k \in 1..Len(p.mon) : IsMonthChar(Ch(PlainMonth(p.mon), k))
    /\ Len(p.year) >= 4 /\ AllDigits(SubSeq(p.year, 1, 4))

\* the month name is made of letters and starts with the k-th prefix
StartsWithPrefix(p, k) ==
    /\ \A j \in 1..Len(p.mon) : IsAsciiLetter(Ch(PlainMonth(p.mon), j))
    /\ StartsWith(PlainMonth(p.mon), MonthPrefixes[k])

\* no prefix of the table starts the month name once its outer periods are dropped
UnknownMonth(p) ==
    \A k \in 1..12 : ~StartsWith(StripDots(PlainMonth(p.mon)), MonthPrefixes[k])

\* C7: "D de <month> de YYYY" with a month name starting with one of the twelve
\* prefixes, whatever its case and accents, gives YYYY, the two-digit month and
\* the zero-padded day; an unknown month prefix or a text that does not spell
\* the pattern gives absent
C7_DateNormalization ==
    pc = "done" =>
        /\ \A k \in 1..12 :
              (SpellsDate(date_parts) /\ StartsWithPrefix(date_parts, k)) =>
                  data_yyyymmdd =
                      Some(SubSeq(date_parts.year, 1, 4) \o TwoDigits(k)
                           \o (IF Len(date_parts.day) = 1 THEN "0" ELSE "")
                           \o date_parts.day)
        /\ UnknownMonth(date_parts) => data_yyyymmdd = None
        /\ ~SpellsDate(date_parts) => data_yyyymmdd = None

C7_Witness ==
    /\ pc = "done"
    /\ date_text = "5 de mar&o de 2024"
    /\ data_yyyymmdd = Some("20240305")

-----------------------------------------------------------------------------
(* Claims about keyword-anchored extraction (SpecKeyword)                  *)

\* the k-th line (counting from 1) holds the keyword
KeywordAt(k) == Contains(_norm_text(lines[k]), key)

\* what the k-th line gives: its own value, else the value of the line after it
ValueAt(k) ==
    LET same == _extract_currency_from_line(lines[k])
    IN  IF same.some THEN same
        ELSE IF k < Len(lines) THEN _extract_currency_from_line(lines[k + 1])
        ELSE None

\* the least element of a non-empty set of numbers
Least(S) == CHOOSE k \in S : \A m \in S : k <= m

\* C1 (as stated): the first line holding the keyword alone decides the result
C1_FirstKeywordLineDecides ==
    pc = "done" =>
        LET hits == {k \in 1..Len(lines) : KeywordAt(k)}
        IN  kw_value = IF hits = {} THEN None ELSE ValueAt(Least(hits))

\* C1 (amended): the result is decided by the first line holding the keyword
\* for which that line or the line right after it has a currency value (that
\* line's value, else the next line's); keyword lines giving no value are passed
\* over, and the result is absent only when no keyword line gives a value
C1_FirstYieldingKeywordLine ==
    pc = "done" =>
        LET hits == {k \in 1..Len(lines) : KeywordAt(k) /\ ValueAt(k).some}
        IN  kw_value = IF hits = {} THEN None ELSE ValueAt(Least(hits))

C1_Witness ==
    /\ pc = "done"
    /\ key = "total"
    /\ lines = <<"Total", "Pagamentos", "Total R$ 25,00">>
    /\ kw_value = Some([num |-> 25, scale |-> 0])

-----------------------------------------------------------------------------
(* Claims about one receipt (SpecRecibo). Lines are counted from 1 here.   *)

\* the normalized line has the shape "<1-2 digits> de <text>" and a further " de "
FullDateShape(l) ==
    LET n == _norm_text(l)
    IN  \E dlen \in {1, 2} :
          /\ Len(n) >= dlen + 4
          /\ AllDigits(SubSeq(n, 1, dlen))
          /\ SubSeq(n, dlen + 1, dlen + 4) = " de "
          /\ Contains(SubSeq(n, dlen + 5, Len(n)), " de ")

HeaderDone == pc \in {"anchor", "scan", "return", "done"}

\* C6: the date is the first line of the shape "<1-2 digits> de <text>" with a
\* further " de "; a line with only "<digits> de <text>" is never the date and
\* does not stop the scan; the time is set exactly when the line right after
\* the date line is H:MM or HH:MM
C6_DateHeaderNeedsSecondDe ==
    HeaderDone =>
        LET full == {k \in 1..Len(lines) : FullDateShape(lines[k])}
        IN  IF full = {}
            THEN data_str = None /\ hora_str = None
            ELSE LET d == Least(full)
                 IN  /\ data_str = Some(lines[d])
                     /\ hora_str = IF d < Len(lines) /\ IsTime(lines[d + 1])
                                    THEN Some(lines[d + 1])
                                    ELSE None

\* the lines that normalize exactly to "informacoes da viagem"
Anchors == {k \in 1..Len(lines) : _norm_text(lines[k]) = "informacoes da viagem"}

\* pt is built from a time marker that lies after the first anchor line
AfterAnchor(pt) ==
    /\ Anchors # {}
    /\ \E k \in (Least(Anchors) + 1)..Len(lines) : IsTime(lines[k]) /\ pt.hora = lines[k]

\* C5: origin and destination come only from lines after the anchor line; with
\* no anchor line, and for the header time in particular, there is neither
C5_OnlyAfterAnchor ==
    pc = "done" =>
        /\ recibo.val.origem.some => AfterAnchor(recibo.val.origem.val)
        /\ recibo.val.destino.some => AfterAnchor(recibo.val.destino.val)

IsMarker(k) == IsTime(lines[k])
IsBoilerplate(k) == StartsWith(_norm_text(lines[k]), "voce viajou")

\* the first line after the marker k that is a marker or boilerplate, or the end
GroupEnd(k) ==
    Least({e \in (k + 1)..(Len(lines) + 1) :
              e = Len(lines) + 1 \/ IsMarker(e) \/ IsBoilerplate(e)})

MarkersFrom(a) == {k \in a..Len(lines) : IsMarker(k)}

\* the lines strictly between the marker k and its terminator, joined by blanks
Group(k) ==
    [hora |-> lines[k], endereco |-> Join(SubSeq(lines, k + 1, GroupEnd(k) - 1))]

\* the groups of the first marker from the start and of the first marker from
\* the first group's terminator on
ExpectedPontos ==
    LET m1 == MarkersFrom(start_idx + 1)
    IN  IF m1 = {} THEN <<>>
        ELSE LET m2 == MarkersFrom(GroupEnd(Least(m1)))
             IN  IF m2 = {} THEN <<Group(Least(m1))>>
                 ELSE <<Group(Least(m1)), Group(Least(m2))>>

\* no fragment of an address is a time marker or the trip-summary boilerplate
CleanAddress(pt) ==
    \A k \in 1..Len(lines) :
        (IsMarker(k) \/ IsBoilerplate(k)) =>
            /\ pt.endereco # lines[k]
            /\ ~StartsWith(pt.endereco, lines[k] \o " ")
            /\ ~EndsWith(pt.endereco, " " \o lines[k])
            /\ ~Contains(pt.endereco, " " \o lines[k] \o " ")

C10_ScanState ==
    /\ Len(pontos) <= 2
    /\ pc = "scan" => (start_idx <= scan_i /\ scan_i <= Len(lines) /\ Len(pontos) < 2)
    /\ pc \in {"return", "done"} => pontos = ExpectedPontos
    /\ \A k \in 1..Len(pontos) : CleanAddress(pontos[k])
    /\ pc = "done" =>
          /\ recibo.val.origem = (IF Len(pontos) > 0 THEN Some(pontos[1]) ELSE None)
          /\ recibo.val.destino = (IF Len(pontos) > 1 THEN Some(pontos[2]) ELSE None)
          /\ recibo.val.destino.some => recibo.val.origem.some

\* C10: the scan ends, its index growing at every iteration and never passing
\* the end; at most two groups are collected, the first the origin and the
\* second the destination, so a destination implies an origin; each address
\* is the blank-joined lines strictly between its marker and the next marker,
\* boilerplate line or end, and holds no marker or boilerplate line
C10_ScanLoop ==
    /\ []C10_ScanState
    /\ [][/\ (pc = "scan" /\ scan_i < Len(lines)) =>
                (scan_i' > scan_i /\ scan_i' <= Len(lines))
          /\ (pc = "scan" /\ scan_i >= Len(lines)) => pc' = "return"]_vars

C10_Witness ==
    /\ pc = "done"
    /\ lines = <<"10:30", "Rua A", "Rua A", "9:05">>
    /\ recibo.val.origem = Some([hora |-> "10:30", endereco |-> "Rua A Rua A"])
    /\ recibo.val.destino = Some([hora |-> "9:05", endereco |-> ""])

-----------------------------------------------------------------------------
(* Claims about the folder loader (SpecPasta)                              *)

\* the names of FileNames with the extension ".pdf" in any case
PdfNames == {"a.pdf", "B.PDF", "c.Pdf"}

\* how many records of rs come from the file nome
RecordsOf(rs, nome) == Cardinality({k \in 1..Len(rs) : rs[k].arquivo = nome})

\* C3: the call never raises; it returns exactly one record for each listed file
\* with a ".pdf" extension in any case whose parse succeeded, and none for a
\* failed or non-PDF file, so a failing file does not stop the files after
\* it; a path that is not a directory returns the empty list
C3_FolderLoader ==
    /\ raised = FALSE
    /\ pc = "done" =>
          /\ ~is_dir => recibos = <<>>
          /\ \A nome \in FileNames :
                RecordsOf(recibos, nome) =
                    IF /\ \E k \in 1..Len(listing) : listing[k] = nome
                       /\ nome \in PdfNames
                       /\ nome \notin failing
                    THEN 1 ELSE 0
          /\ \A k \in 1..Len(recibos) : recibos[k].arquivo \in FileNames

C3_Witness ==
    /\ pc = "done"
    /\ listing = <<"a.pdf", "notes.txt", "B.PDF">>
    /\ failing = {"a.pdf"}
    /\ recibos = <<[arquivo |-> "B.PDF"]>>

-----------------------------------------------------------------------------
(* Claims about the report (SpecOrdenacao, SpecPeriodos)                   *)

\* minutes since midnight of a time H:MM or HH:MM
MinutesOf(h) ==
    LET c == IF Ch(h, 2) = ":" THEN 2 ELSE 3
    IN  60 * DigitsValue(SubSeq(h, 1, c - 1)) + DigitsValue(SubSeq(h, c + 1, Len(h)))

\* C4: the report order is ascending by (date_key, time of day): a record with
\* no date_key comes before every record with one, dates ascend, and among
\* records of one date_key an earlier H:MM or HH:MM time comes first
C4_ChronologicalOrder ==
    pc = "done" =>
        \A a, b \in 1..Len(recibos_ordenados) :
            a < b =>
                LET ra == recibos_ordenados[a]
                    rb == recibos_ordenados[b]
                IN  /\ ~rb.data_yyyymmdd.some => ~ra.data_yyyymmdd.some
                    /\ (ra.data_yyyymmdd.some /\ rb.data_yyyymmdd.some) =>
                          DigitsValue(ra.data_yyyymmdd.val)
                              <= DigitsValue(rb.data_yyyymmdd.val)
                    /\ (/\ ra.data_yyyymmdd.some
                        /\ ra.data_yyyymmdd = rb.data_yyyymmdd
                        /\ ra.hora.some /\ rb.hora.some) =>
                          MinutesOf(ra.hora.val) <= MinutesOf(rb.hora.val)

\* C2: an absent promotion renders as "-", a present one as the currency text
\* of its absolute value behind exactly one "-", whatever its stored sign
C2_PromotionDisplay ==
    pc = "done" =>
        \A k \in 1..Len(recibos_ordenados) :
            LET p == recibos_ordenados[k].promocao
            IN  promo_fmts[k] = IF ~p.some THEN "-"
                                ELSE "-" \o _fmt_currency(Some(Abs(p.val)))

\* the date keys of PeriodRecords that are calendar dates, with the week of
\* the month each falls in
WeekOfDate ==
    [d \in {"20240101", "20240107", "20240108", "20240131", "20240207"} |->
        CASE d = "20240101" -> 1 [] d = "20240107" -> 1 [] d = "20240108" -> 2
          [] d = "20240131" -> 5 [] d = "20240207" -> 1]

MonthKeyOf(d) == SubSeq(d, 5, 6) \o "/" \o SubSeq(d, 1, 4)

WeekKeyOf(d) == MonthKeyOf(d) \o " * Semana " \o DigitCh(WeekOfDate[d])

\* the records of the report whose date_key is a calendar date
Dated ==
    {k \in 1..Len(recibos_ordenados) :
        /\ recibos_ordenados[k].data_yyyymmdd.some
        /\ recibos_ordenados[k].data_yyyymmdd.val \in DOMAIN WeekOfDate}

DateOf(k) == recibos_ordenados[k].data_yyyymmdd.val

\* the sum of the totals, absent counted as 0, of the records of the set ks
RECURSIVE TotalOf(_)
TotalOf(ks) ==
    IF ks = {} THEN 0
    ELSE LET k == CHOOSE k \in ks : TRUE
             r == recibos_ordenados[k]
         IN  (IF r.total.some THEN r.total.val ELSE 0) + TotalOf(ks \ {k})

\* the sum of the values of a dictionary
RECURSIVE SumValues(_)
SumValues(d) ==
    IF DOMAIN d = {} THEN 0
    ELSE LET k == CHOOSE k \in DOMAIN d : TRUE
         IN  d[k] + SumValues([x \in DOMAIN d \ {k} |-> d[x]])

=============================================================================
